---- MODULE Spec2Model ----
(***************************************************************************)
(* The Keno highlight monitor of src/bot.py: the monitor instance          *)
(* (KenoCloudMonitor), the supervising loop super_robust_monitor and the   *)
(* never_die_monitor loop around it, with the wall clock as a variable.    *)
(* One action is one pass of a loop body or one handler of the source.     *)
(*                                                                         *)
(* Time is in whole seconds.  The clock starts one cooldown after zero:    *)
(* time.time() is seconds since 1970, so the first reading is far more     *)
(* than alert_cooldown above the initial last_alert_time of 0.             *)
(*                                                                         *)
(* single_check and send_telegram_alert catch every Exception themselves,  *)
(* so nothing in them reaches the inner except of super_robust_monitor;    *)
(* TickError is that handler taken for an exception from elsewhere in the  *)
(* tick.  The except clauses of never_die_monitor are not taken: no        *)
(* statement of super_robust_monitor outside its try raises here.          *)
(*                                                                         *)
(* Beside the supervisor (Spec, LiveSpec) the module has:                  *)
(*   SurfaceSpec  the supervisor with the Flask thread of src/bot.py, whose *)
(*                handlers read monitor_state one key at a time;           *)
(*   DetectSpec   detect_bright_numbers alone, of src/bot.py and of        *)
(*                src/app.py, applied to a page drawn from Pages;          *)
(*   AppSpec      the process of src/app.py, the earlier form of the       *)
(*                program: start_monitor and its two scheduled jobs.       *)
(***************************************************************************)
EXTENDS Integers, FiniteSets, Sequences, TLC

(* ---- program constants ------------------------------------------------ *)
alert_cooldown == 10
max_errors == 50
max_inner_errors == 10
StatusEvery == 50
MinSleep == 1
TickPeriod == 3
InnerErrorSleep == 2
InnerRestartSleep == 5
OuterErrorSleep == 10
MaxGroup == 15
NumberMin == 1
NumberMax == 80
CheckEvery == 10
StatusPeriod == 1800
GridMax == 10
GridSize == 8

(* ---- bounds of the exploration ---------------------------------------- *)
\* The page offers markup only during the first MaxBusyChecks completed
\* ticks of the process; afterwards every fetch fails.
MaxBusyChecks == 5
\* A tick raises only while fewer than MaxFaultChecks ticks have completed and
\* the clock is below MaxTime.
MaxFaultChecks == 2
MaxTime == 32
\* No tick starts once total_checks has reached MaxChecks.
MaxChecks == 51
\* No construction failure is taken once restart_count has reached MaxRestarts.
MaxRestarts == 52

VARIABLES
    credentials,            \* TELEGRAM_BOT_TOKEN and TELEGRAM_CHAT_ID are both set
    active,                 \* monitor_state["active"]
    restart_count,          \* monitor_state["restart_count"]
    total_checks,           \* monitor_state["total_checks"]
    last_success,           \* monitor_state["last_success"]
    pc,                     \* position of the supervisor thread
    check_count,            \* local of super_robust_monitor
    error_count,            \* local of super_robust_monitor
    inner_errors,           \* local of super_robust_monitor
    last_detected_numbers,  \* field of the current monitor instance
    last_alert_time,        \* field of the current monitor instance
    now,                    \* time.time(), in whole seconds
    ev,                     \* what the supervisor's last step did (history)
    notified,               \* <<S>>: S was the last highlight delivered by this instance (history)
    last_send_time,         \* when the process last handed a highlight to bot.send_message, -1 if never (history)
    fail_run,               \* consecutive ticks whose fetch failed, saturating (history)
    request,                \* the request the Flask thread is serving, if any
    page,                   \* the markup handed to detect_bright_numbers on its own
    found,                  \* <<S>>: what that call returned; <<>> before it
    app                     \* the process of src/app.py: its thread and its monitor

vars == <<credentials, active, restart_count, total_checks, last_success, pc,
          check_count, error_count, inner_errors, last_detected_numbers,
          last_alert_time, now, ev, notified, last_send_time, fail_run,
          request, page, found, app>>

Max(a, b) == IF a >= b THEN a ELSE b
Min(a, b) == IF a <= b THEN a ELSE b
SetMin(S) == CHOOSE x \in S : \A y \in S : x <= y
SetMax(S) == CHOOSE x \in S : \A y \in S : x >= y

(* ---- the page ---------------------------------------------------------- *)
\* What one fetch can return: None (a failure, or an empty body), or markup,
\* given by the candidate set the strategies of detect_bright_numbers merge
\* from it.
\* None is <<>>; markup is <<C>>, C the candidate set.
FetchFail == <<>>
Candidates == { {}, {7, 23}, {7, 23, 41}, 1..10, 1..16 }

\* fetch_website_content: every exception is turned into None.
fetch_website_content(checks) ==
    IF checks < MaxBusyChecks THEN {FetchFail} \cup { <<c>> : c \in Candidates } ELSE {FetchFail}

\* The false-positive filter that ends detect_bright_numbers.
detect_bright_numbers(html) ==
    IF html = FetchFail THEN {}
    ELSE LET bright_numbers == html[1]
         IN  IF Cardinality(bright_numbers) > MaxGroup THEN {}
             ELSE IF /\ bright_numbers # {}
                     /\ SetMin(bright_numbers) = 1
                     /\ SetMax(bright_numbers) >= GridMax
                     /\ Cardinality(bright_numbers) >= GridSize THEN {}
             ELSE bright_numbers

(* ---- the monitor instance ---------------------------------------------- *)
\* single_check calling send_telegram_alert for every non-empty set of at
\* most 15 numbers.
IsNewGroup_any(current, last) ==
    /\ current # {}
    /\ Cardinality(current) <= MaxGroup

\* single_check's condition for calling send_telegram_alert(.., "bright").
IsNewGroup(current, last) ==
    /\ current # {}
    /\ current # last
    /\ 1 <= Cardinality(current)
    /\ Cardinality(current) <= MaxGroup

\* The cooldown test left out.
InCooldown_never(current_time, last_alert) == FALSE

\* send_telegram_alert's cooldown test for a "bright" message.
InCooldown(current_time, last_alert) ==
    (current_time - last_alert) < alert_cooldown

\* last_alert_time assigned only once the message has been delivered.
AlertTimeAfterSend_delivered(current_time, last_alert, delivered) ==
    IF delivered THEN current_time ELSE last_alert

\* last_alert_time after send_telegram_alert(numbers, "bright") has passed its
\* two early returns: it is assigned before the message is sent.
AlertTimeAfterSend(current_time, last_alert, delivered) == current_time

\* single_check without its assignment of last_detected_numbers.
DetectedAfterAlert_kept(current, last, outcome) == last

\* last_detected_numbers after single_check has called send_telegram_alert:
\* assigned whatever the call did.
DetectedAfterAlert(current, last, outcome) == current

\* send_telegram_alert without its except clause.
AlertRaises_uncaught(delivered) == ~delivered

\* Whether a failed bot.send_message raises out of send_telegram_alert:
\* the try/except around it logs every Exception and returns.
AlertRaises(delivered) == FALSE

\* A completed tick that leaves the count of the inner loop as it is.
InnerErrorsAfterTick_kept(inner) == inner

\* inner_errors after a tick has completed: the tick assigns 0.
InnerErrorsAfterTick(inner) == 0

\* The pause that ends a completed tick.
sleep_time(processing_time) == Max(MinSleep, TickPeriod - processing_time)

\* Seconds the fetch of one tick can take.
ProcessingTimes == {0}

\* The dictionary monitor_state, without last_restart: only the except clause
\* of never_die_monitor assigns that key after the start.
monitor_state ==
    [active |-> active, restart_count |-> restart_count,
     total_checks |-> total_checks, last_success |-> last_success]

\* The fields a step may change, as they were before it (history).
Before == [detected |-> last_detected_numbers, alert |-> last_alert_time,
           notified |-> notified, send |-> last_send_time,
           checks |-> total_checks, errors |-> error_count,
           restarts |-> restart_count, inner |-> inner_errors,
           fails |-> fail_run]

\* ev of a step that is no tick and no construction.
NoEv == [kind |-> "none", fetch |-> "none", current |-> {}, time |-> now,
         sent |-> "none", status |-> "none", prev |-> Before]

(* ---- never_die_monitor -------------------------------------------------- *)
\* never_die_monitor leaving its loop when super_robust_monitor returns.
AfterReturn_break == "stopped"

\* Where never_die_monitor goes when asyncio.run(super_robust_monitor())
\* returns: round its while True loop.
AfterReturn == "nd_loop"

\* The Flask thread between two requests.
Idle == [route |-> "idle", got |-> <<>>, seen |-> {}]

\* No markup: the html_content of a failed fetch.
NoPage == [body |-> "none", marked |-> {}, boxed |-> {}, plain |-> {}]

\* The process of src/app.py, not started.
AppOff == [pc |-> "off", last_detected_numbers |-> {}, elapsed |-> 0,
           job |-> "none", current |-> {}, sent |-> "none"]

\* The process of src/bot.py as it starts.
BotInit ==
    /\ credentials \in BOOLEAN
    /\ active = TRUE
    /\ restart_count = 0
    /\ total_checks = 0
    /\ now = alert_cooldown
    /\ last_success = now
    /\ pc = "nd_loop"
    /\ check_count = 0
    /\ error_count = 0
    /\ inner_errors = 0
    /\ last_detected_numbers = {}
    /\ last_alert_time = 0
    /\ notified = <<>>
    /\ last_send_time = -1
    /\ fail_run = 0
    /\ ev = NoEv

Init ==
    /\ BotInit
    /\ request = Idle
    /\ page = NoPage
    /\ found = <<>>
    /\ app = AppOff

\* super_robust_monitor starting the restart counter afresh with its locals.
RestartsAtLaunch_reset(restarts) == 0

\* monitor_state["restart_count"] once super_robust_monitor has set its
\* counters: the function assigns its locals only.
RestartsAtLaunch(restarts) == restarts

\* never_die_monitor: one pass of while True, up to the call of
\* super_robust_monitor, which sets its counters.
Launch ==
    /\ pc = "nd_loop"
    /\ pc' = "outer"
    /\ check_count' = 0
    /\ error_count' = 0
    /\ restart_count' = RestartsAtLaunch(restart_count)
    /\ ev' = [NoEv EXCEPT !.kind = "launch"]
    /\ UNCHANGED <<request, page, found, app, credentials, active, total_checks, last_success,
                   inner_errors, last_detected_numbers, last_alert_time, now,
                   notified, last_send_time, fail_run>>

\* The condition of super_robust_monitor's outer while.
OuterGuard == active /\ error_count < max_errors

\* The condition of super_robust_monitor's inner while.
InnerGuard == active /\ inner_errors < max_inner_errors /\ error_count < max_errors

\* The outer while's condition holds: the body is entered.
OuterEnter ==
    /\ pc = "outer"
    /\ OuterGuard
    /\ pc' = "starting"
    /\ ev' = NoEv
    /\ UNCHANGED <<request, page, found, app, credentials, active, restart_count, total_checks, last_success,
                   check_count, error_count, inner_errors, last_detected_numbers,
                   last_alert_time, now, notified, last_send_time, fail_run>>

\* The outer while's condition fails: super_robust_monitor logs and returns.
OuterExit ==
    /\ pc = "outer"
    /\ ~OuterGuard
    /\ pc' = "returned"
    /\ ev' = NoEv
    /\ UNCHANGED <<request, page, found, app, credentials, active, restart_count, total_checks, last_success,
                   check_count, error_count, inner_errors, last_detected_numbers,
                   last_alert_time, now, notified, last_send_time, fail_run>>

\* asyncio.run returns to never_die_monitor.
Return ==
    /\ pc = "returned"
    /\ pc' = AfterReturn
    /\ ev' = [NoEv EXCEPT !.kind = "return"]
    /\ UNCHANGED <<request, page, found, app, credentials, active, restart_count, total_checks, last_success,
                   check_count, error_count, inner_errors, last_detected_numbers,
                   last_alert_time, now, notified, last_send_time, fail_run>>

\* A constructor that logs the missing credentials and returns.
ConstructRaises_never(creds) == FALSE

\* KenoCloudMonitor.__init__ raises ValueError when the token or the chat id
\* is missing.
ConstructRaises(creds) == ~creds

\* KenoCloudMonitor() succeeds: a fresh instance, the startup status message
\* (delivered or not), and the inner loop's counter.
StartOk ==
    /\ pc = "starting"
    /\ ~ConstructRaises(credentials)
    /\ \E delivered \in BOOLEAN :
         ev' = [NoEv EXCEPT !.kind = "start",
                            !.status = IF delivered THEN "ok" ELSE "failed"]
    /\ last_detected_numbers' = {}
    /\ last_alert_time' = 0
    /\ inner_errors' = 0
    /\ notified' = <<>>
    /\ fail_run' = 0
    /\ pc' = "inner"
    /\ UNCHANGED <<request, page, found, app, credentials, active, restart_count, total_checks, last_success,
                   check_count, error_count, now, last_send_time>>

\* KenoCloudMonitor() raises (missing credentials): the outer except counts
\* the error and the restart, and sleeps.
StartFail ==
    /\ pc = "starting"
    /\ ConstructRaises(credentials)
    /\ restart_count < MaxRestarts
    /\ error_count' = error_count + 1
    /\ restart_count' = restart_count + 1
    /\ now' = now + OuterErrorSleep
    /\ pc' = "outer"
    /\ ev' = [NoEv EXCEPT !.kind = "outer_error"]
    /\ UNCHANGED <<request, page, found, app, credentials, active, total_checks, last_success, check_count,
                   inner_errors, last_detected_numbers, last_alert_time,
                   notified, last_send_time, fail_run>>

\* One tick that completes: single_check, the bookkeeping, the periodic
\* status message and the sleep.
TickWith(html, processing_time, delivered, status_delivered) ==
    LET current_time == now + processing_time
        current == detect_bright_numbers(html)
        call == html # FetchFail /\ IsNewGroup(current, last_detected_numbers)
        attempt == call /\ ~InCooldown(current_time, last_alert_time)
        outcome == IF ~call THEN "none"
                   ELSE IF ~attempt THEN "cooldown"
                   ELSE IF delivered THEN "ok" ELSE "failed"
        raises == attempt /\ AlertRaises(delivered)
        checks == check_count + 1
        periodic == checks % StatusEvery = 0
    IN  /\ last_alert_time' =
              IF attempt THEN AlertTimeAfterSend(current_time, last_alert_time, delivered)
              ELSE last_alert_time
        /\ last_detected_numbers' =
              IF call /\ ~raises
              THEN DetectedAfterAlert(current, last_detected_numbers, outcome)
              ELSE last_detected_numbers
        /\ notified' = IF outcome = "ok" THEN <<current>> ELSE notified
        /\ last_send_time' = IF attempt THEN current_time ELSE last_send_time
        /\ fail_run' = IF html = FetchFail
                       THEN Min(fail_run + 1, max_inner_errors + 1) ELSE 0
        /\ IF raises
           THEN /\ inner_errors' = inner_errors + 1
                /\ error_count' = error_count + 1
                /\ now' = current_time + InnerErrorSleep
                /\ ev' = [kind |-> "error", fetch |-> "ok", current |-> current,
                          time |-> current_time, sent |-> outcome, status |-> "none",
                          prev |-> Before]
                /\ UNCHANGED <<total_checks, last_success, check_count>>
           ELSE /\ total_checks' = total_checks + 1
                /\ last_success' = current_time
                /\ check_count' = IF periodic THEN 0 ELSE checks
                /\ inner_errors' = InnerErrorsAfterTick(inner_errors)
                /\ error_count' = 0
                /\ now' = current_time + sleep_time(processing_time)
                /\ ev' = [kind |-> "tick",
                          fetch |-> IF html = FetchFail THEN "fail" ELSE "ok",
                          current |-> current, time |-> current_time,
                          sent |-> outcome,
                          status |-> IF ~periodic THEN "none"
                                     ELSE IF status_delivered THEN "ok" ELSE "failed",
                          prev |-> Before]
        /\ pc' = "inner"
        /\ UNCHANGED <<request, page, found, app, credentials, active, restart_count>>

Tick ==
    /\ pc = "inner"
    /\ InnerGuard
    /\ total_checks < MaxChecks
    /\ \E html \in fetch_website_content(total_checks), processing_time \in ProcessingTimes,
          delivered \in BOOLEAN, status_delivered \in BOOLEAN :
         TickWith(html, processing_time, delivered, status_delivered)

\* An exception escapes the body of a tick: the inner except counts it and
\* sleeps.
TickError ==
    /\ pc = "inner"
    /\ InnerGuard
    /\ total_checks < MaxFaultChecks
    /\ now < MaxTime
    /\ inner_errors' = inner_errors + 1
    /\ error_count' = error_count + 1
    /\ now' = now + InnerErrorSleep
    /\ fail_run' = 0
    /\ ev' = [NoEv EXCEPT !.kind = "error"]
    /\ UNCHANGED <<request, page, found, app, credentials, active, restart_count, total_checks, last_success,
                   pc, check_count, last_detected_numbers, last_alert_time,
                   notified, last_send_time>>

\* The inner while's condition fails: the loop is left.
InnerExit ==
    /\ pc = "inner"
    /\ ~InnerGuard
    /\ pc' = "backoff"
    /\ ev' = NoEv
    /\ UNCHANGED <<request, page, found, app, credentials, active, restart_count, total_checks, last_success,
                   check_count, error_count, inner_errors, last_detected_numbers,
                   last_alert_time, now, notified, last_send_time, fail_run>>

\* After the inner loop: the warning and the pause, then the outer while again.
Backoff ==
    /\ pc = "backoff"
    /\ now' = now + InnerRestartSleep
    /\ pc' = "outer"
    /\ ev' = [NoEv EXCEPT !.kind = "backoff"]
    /\ UNCHANGED <<request, page, found, app, credentials, active, restart_count, total_checks, last_success,
                   check_count, error_count, inner_errors, last_detected_numbers,
                   last_alert_time, notified, last_send_time, fail_run>>

\* The stop signal: monitor_state["active"] is cleared from outside the
\* supervisor thread (no statement of the supervisor writes the flag; both of
\* its loops read it).
Stop ==
    /\ active
    /\ total_checks < MaxBusyChecks
    /\ active' = FALSE
    /\ ev' = NoEv
    /\ UNCHANGED <<request, page, found, app, credentials, restart_count, total_checks, last_success, pc,
                   check_count, error_count, inner_errors, last_detected_numbers,
                   last_alert_time, now, notified, last_send_time, fail_run>>

Supervisor ==
    \/ Launch
    \/ OuterEnter
    \/ OuterExit
    \/ Return
    \/ StartOk
    \/ StartFail
    \/ Tick
    \/ TickError
    \/ InnerExit
    \/ Backoff

Next == Supervisor \/ Stop

Spec == Init /\ [][Next]_vars

\* The supervisor is a thread of its own and every sleep ends.
LiveSpec == Init /\ [][Next]_vars /\ WF_vars(Supervisor)

(* ---- the Flask thread: home, health, monitor_status ---------------------- *)
\* With the Flask thread beside it, the supervisor is followed while the
\* clock is below SurfaceHorizon.
SurfaceHorizon == 17

Routes == {"home", "health", "monitor_status"}

\* The keys of monitor_state a handler reads, in the order its expressions
\* are evaluated (last_restart left out).
Fields(route) ==
    CASE route = "home" -> <<"restart_count", "total_checks", "last_success">>
      [] route = "health" -> <<"restart_count", "total_checks">>
      [] route = "monitor_status" ->
            <<"active", "restart_count", "total_checks", "last_success">>

\* The "status" member of health's JSON: a literal.
HealthStatus(state) == "healthy"

\* A handler that counts the requests it serves into total_checks.
ChecksAfterRequest_counted(checks) == checks + 1

\* monitor_state["total_checks"] after a handler has returned: the handlers
\* only read the dictionary.
ChecksAfterRequest(checks) == checks

\* Flask calls the handler of a route.
Receive ==
    /\ request = Idle
    /\ \E route \in Routes : request' = [route |-> route, got |-> <<>>, seen |-> {}]
    /\ UNCHANGED <<credentials, active, restart_count, total_checks, last_success,
                   pc, check_count, error_count, inner_errors, last_detected_numbers,
                   last_alert_time, now, ev, notified, last_send_time, fail_run,
                   page, found, app>>

\* Every key the handler has to read has been read.
Answered ==
    /\ request.route \in Routes
    /\ Len(request.got) = Len(Fields(request.route))

\* The handler evaluates its next monitor_state[...] expression: one
\* dictionary lookup, with no lock and no copy of the dictionary.
ReadField ==
    /\ request.route \in Routes
    /\ ~Answered
    /\ request' = [request EXCEPT
                      !.got = Append(@, monitor_state[Fields(request.route)[Len(@) + 1]]),
                      !.seen = @ \cup {monitor_state}]
    /\ UNCHANGED <<credentials, active, restart_count, total_checks, last_success,
                   pc, check_count, error_count, inner_errors, last_detected_numbers,
                   last_alert_time, now, ev, notified, last_send_time, fail_run,
                   page, found, app>>

\* What the handler returns, built from the values it read.
Response ==
    CASE request.route = "home" ->
            [status |-> "RUNNING", restart_count |-> request.got[1],
             total_checks |-> request.got[2], last_success |-> request.got[3]]
      [] request.route = "health" ->
            [status |-> HealthStatus(request.got), restart_count |-> request.got[1],
             total_checks |-> request.got[2]]
      [] request.route = "monitor_status" ->
            [monitor_active |-> request.got[1], restart_count |-> request.got[2],
             total_checks |-> request.got[3], last_success |-> request.got[4]]

\* The handler returns and the response is sent.
Respond ==
    /\ Answered
    /\ request' = Idle
    /\ total_checks' = ChecksAfterRequest(total_checks)
    /\ UNCHANGED <<credentials, active, restart_count, last_success,
                   pc, check_count, error_count, inner_errors, last_detected_numbers,
                   last_alert_time, now, ev, notified, last_send_time, fail_run,
                   page, found, app>>

StatusSurface == Receive \/ ReadField \/ Respond

\* The supervisor thread, followed up to SurfaceHorizon.
SupervisorToHorizon == now < SurfaceHorizon /\ Supervisor

\* The two threads start_ultimate_monitor and app.run leave running.  No
\* statement of the program clears monitor_state["active"].
SurfaceNext == SupervisorToHorizon \/ StatusSurface

SurfaceSpec == Init /\ [][SurfaceNext]_vars

(* ---- detect_bright_numbers on its own: src/bot.py and src/app.py --------- *)
\* Markup is given by what the strategies read in it:
\*   marked  the integers that are the text of an element whose class or style
\*           carries a highlight keyword;
\*   boxed   the integers in the text of a game container with bright styling;
\*   plain   the integers elsewhere in the markup;
\* body is "none" (None or ""), "broken" (BeautifulSoup or a strategy raises)
\* or "markup".
SampleSets ==
    { lo..hi : lo \in {NumberMin - 1, NumberMin, NumberMin + 1},
                         hi \in {0, 1, 7, 9, GridMax, MaxGroup, MaxGroup + 1,
                                  MaxGroup + 2, NumberMax + 1} }
      \cup { {7, 23}, {7, 23, 41} }

BoxedSets == { {}, {3, 4}, NumberMin..(MaxGroup + 1) }

PlainSets == { {}, {5}, NumberMin..GridMax, NumberMin..NumberMax }

Pages ==
    { NoPage, [NoPage EXCEPT !.body = "broken"] }
      \cup [body : {"markup"}, marked : SampleSets, boxed : BoxedSets, plain : PlainSets]

\* The range test of every strategy: 1 <= int(text) <= 80.
InRange(S) == { n \in S : NumberMin <= n /\ n <= NumberMax }

\* detect_bright_numbers with no try around its body.
DetectRaises_uncaught(p) == p.body = "broken"

\* Whether detect_bright_numbers raises: its body is inside try/except
\* Exception, which logs and returns set().
DetectRaises(p) == FALSE

\* src/bot.py: strategies 1 and 2 merged, then the false-positive filter.
bot_detect(p) ==
    IF p.body = "none" THEN detect_bright_numbers(FetchFail)
    ELSE IF p.body = "broken" THEN {}
    ELSE detect_bright_numbers(<<InRange(p.marked)>>)

\* src/app.py: what its three strategies leave in bright_numbers.
app_candidates(p) ==
    LET strategy1 == InRange(p.marked)
        numbers == InRange(p.boxed)
        strategy2 == IF 1 <= Cardinality(numbers) /\ Cardinality(numbers) <= MaxGroup
                     THEN numbers ELSE {}
        unique_numbers == InRange(p.marked \cup p.boxed \cup p.plain)
        strategy3 == IF 1 <= Cardinality(unique_numbers)
                        /\ Cardinality(unique_numbers) <= MaxGroup
                     THEN unique_numbers ELSE {}
    IN  IF strategy1 # {} THEN strategy1
        ELSE IF strategy2 # {} THEN strategy2
        ELSE strategy3

\* src/app.py: detect_bright_numbers returns bright_numbers as the strategies
\* left it.
app_detect(p) ==
    IF p.body = "none" THEN {}
    ELSE IF p.body = "broken" THEN {}
    ELSE app_candidates(p)

DetectInit ==
    /\ BotInit
    /\ request = Idle
    /\ page \in Pages
    /\ found = <<>>
    /\ app = AppOff

\* One call of detect_bright_numbers(page) of src/bot.py.
DetectBot ==
    /\ found = <<>>
    /\ found' = <<[by |-> "bot", raised |-> DetectRaises(page),
                   numbers |-> IF DetectRaises(page) THEN {} ELSE bot_detect(page)]>>
    /\ UNCHANGED <<credentials, active, restart_count, total_checks, last_success,
                   pc, check_count, error_count, inner_errors, last_detected_numbers,
                   last_alert_time, now, ev, notified, last_send_time, fail_run,
                   request, page, app>>

\* One call of detect_bright_numbers(page) of src/app.py.
DetectApp ==
    /\ found = <<>>
    /\ found' = <<[by |-> "app", raised |-> DetectRaises(page),
                   numbers |-> IF DetectRaises(page) THEN {} ELSE app_detect(page)]>>
    /\ UNCHANGED <<credentials, active, restart_count, total_checks, last_success,
                   pc, check_count, error_count, inner_errors, last_detected_numbers,
                   last_alert_time, now, ev, notified, last_send_time, fail_run,
                   request, page, app>>

DetectNext == DetectBot \/ DetectApp

DetectSpec == DetectInit /\ [][DetectNext]_vars

(* ---- the process of src/app.py: start_monitor and its scheduler ---------- *)
\* The pages the site shows to src/app.py: no content, markup without a
\* highlight, markup with 7 and 23 highlighted.
AppPages ==
    { NoPage,
      [NoPage EXCEPT !.body = "markup"],
      [NoPage EXCEPT !.body = "markup", !.marked = {7, 23}] }

\* src/app.py, send_telegram_alert: "if not numbers: return" comes before
\* the message type is looked at.
AppSendAttempted(numbers, message_type) == numbers # {}

\* src/app.py, send_telegram_alert(numbers, message_type): what becomes of
\* the message.
AppSend(numbers, message_type, delivered) ==
    IF ~AppSendAttempted(numbers, message_type) THEN "none"
    ELSE IF delivered THEN "ok" ELSE "failed"

\* src/app.py, send_status_update: fetch, detect, send a status message.
AppStatusUpdate(p, delivered, job) ==
    LET current_numbers == IF p.body = "none" THEN {} ELSE app_detect(p)
    IN  [app EXCEPT !.job = job, !.current = current_numbers,
                    !.sent = AppSend(current_numbers, "status", delivered),
                    !.elapsed = 0, !.pc = "running"]

AppInit ==
    /\ BotInit
    /\ request = Idle
    /\ page = NoPage
    /\ found = <<>>
    /\ app = [AppOff EXCEPT !.pc = "boot"]

\* start_monitor with a credential missing: it logs and returns.
AppStartRefused ==
    /\ app.pc = "boot"
    /\ ~credentials
    /\ app' = [app EXCEPT !.pc = "ended"]
    /\ UNCHANGED <<credentials, active, restart_count, total_checks, last_success,
                   pc, check_count, error_count, inner_errors, last_detected_numbers,
                   last_alert_time, now, ev, notified, last_send_time, fail_run,
                   request, page, found>>

\* start_monitor: the initial status message, then the two jobs are
\* scheduled.
AppStart ==
    /\ app.pc = "boot"
    /\ credentials
    /\ \E p \in AppPages, delivered \in BOOLEAN :
         app' = AppStatusUpdate(p, delivered, "start_status")
    /\ UNCHANGED <<credentials, active, restart_count, total_checks, last_success,
                   pc, check_count, error_count, inner_errors, last_detected_numbers,
                   last_alert_time, now, ev, notified, last_send_time, fail_run,
                   request, page, found>>

\* The job of every 10 seconds: check_and_alert.
AppCheck ==
    /\ app.pc = "running"
    /\ app.elapsed < StatusPeriod
    /\ \E p \in AppPages, delivered \in BOOLEAN :
         LET current_numbers == app_detect(p)
             alert == /\ p.body # "none"
                      /\ current_numbers # {}
                      /\ current_numbers # app.last_detected_numbers
         IN  app' = [app EXCEPT
                       !.job = "check",
                       !.current = IF p.body = "none" THEN {} ELSE current_numbers,
                       !.sent = IF alert THEN AppSend(current_numbers, "bright", delivered)
                                ELSE "none",
                       !.last_detected_numbers = IF alert THEN current_numbers ELSE @,
                       !.elapsed = @ + CheckEvery]
    /\ UNCHANGED <<credentials, active, restart_count, total_checks, last_success,
                   pc, check_count, error_count, inner_errors, last_detected_numbers,
                   last_alert_time, now, ev, notified, last_send_time, fail_run,
                   request, page, found>>

\* The job of every 30 minutes: send_status_update.
AppStatus ==
    /\ app.pc = "running"
    /\ app.elapsed = StatusPeriod
    /\ \E p \in AppPages, delivered \in BOOLEAN :
         app' = AppStatusUpdate(p, delivered, "status")
    /\ UNCHANGED <<credentials, active, restart_count, total_checks, last_success,
                   pc, check_count, error_count, inner_errors, last_detected_numbers,
                   last_alert_time, now, ev, notified, last_send_time, fail_run,
                   request, page, found>>

AppNext == AppStartRefused \/ AppStart \/ AppCheck \/ AppStatus

AppSpec == AppInit /\ [][AppNext]_vars

(* ======================================================================== *)
(* The claims                                                               *)
(* ======================================================================== *)
\* The step just taken handed a highlight to bot.send_message.
Sent == ev.sent \in {"ok", "failed"}

\* C1: a tick whose highlight send failed leaves last_detected_numbers and
\* last_alert_time as they were before the tick.
C1_FailedSendKeepsState ==
    (ev.kind = "tick" /\ ev.sent = "failed") =>
        /\ last_detected_numbers = ev.prev.detected
        /\ last_alert_time = ev.prev.alert

\* C2: a tick that decides not to notify (nothing detected, the same set as
\* before, or the cooldown still running) leaves last_detected_numbers and
\* last_alert_time as they were before the tick.
C2_NoNotifyKeepsState ==
    (ev.kind = "tick" /\ ev.sent \in {"none", "cooldown"}) =>
        /\ last_detected_numbers = ev.prev.detected
        /\ last_alert_time = ev.prev.alert

\* C3: a highlight is handed to the notifier only for a detected set that is
\* non-empty, differs from last_detected_numbers, has at most 15 members and
\* comes at least the cooldown after last_alert_time.
C3_SendOnlyWhenWarranted ==
    Sent =>
        /\ ev.current # {}
        /\ ev.current # ev.prev.detected
        /\ Cardinality(ev.current) <= MaxGroup
        /\ ev.time - ev.prev.alert >= alert_cooldown

\* A later highlight of the same instance was sent, after an earlier one.
C3_Witness ==
    /\ ev.kind = "tick"
    /\ ev.sent = "ok"
    /\ ev.prev.alert > 0
    /\ ev.current = {7, 23, 41}

\* C4: within one monitor instance no highlight is delivered for the set that
\* the instance's last delivered highlight carried.
C4_NoRepeatOfNotified ==
    (ev.sent = "ok") => ev.prev.notified # <<ev.current>>

\* C5: any two consecutive highlight sends of the process, restarts in
\* between or not, are at least the cooldown apart.
C5_CooldownBetweenSends ==
    (Sent /\ ev.prev.send # -1) => ev.time - ev.prev.send >= alert_cooldown

\* A fresh instance (its last_alert_time still 0) sends a highlight after an
\* earlier instance has sent one.
C5_Witness ==
    /\ ev.kind = "tick"
    /\ ev.sent = "ok"
    /\ ev.prev.send # -1
    /\ ev.prev.alert = 0

\* C6: after 11 consecutive ticks whose fetch failed the failures have been
\* counted, the supervisor has left the inner loop for its backoff and
\* restart_count has grown by one.
C6_FetchFailuresRestart ==
    (ev.kind = "tick" /\ fail_run >= max_inner_errors + 1) =>
        /\ pc = "backoff"
        /\ restart_count = ev.prev.restarts + 1

\* The supervisor has just failed: an exception in a tick, a failed
\* construction, the inner loop left, or super_robust_monitor returned.
Failed ==
    \/ ev.kind \in {"error", "outer_error"}
    \/ pc \in {"backoff", "returned"}

\* The supervisor is about to construct a monitor, or has completed a tick;
\* or the stop signal has been raised.
Retried ==
    \/ pc = "starting"
    \/ ev.kind = "tick"
    \/ ~active

\* C7: without a stop signal the supervisor does not halt: after an exception
\* in a tick, a failed construction, the end of the inner loop or the return
\* of super_robust_monitor (its error budget spent) it comes to construct a
\* monitor again, or to complete a tick with the one it has.
C7_NeverHalts == Failed ~> Retried

\* super_robust_monitor has returned with its 50 errors spent.
C7_Witness ==
    /\ pc = "returned"
    /\ active
    /\ error_count = max_errors

\* C8: once the stop signal is raised and super_robust_monitor has returned,
\* the supervisor thread is at its end and does not go round again.
C8_StopIsTerminal ==
    (~active /\ ev.kind = "return") => pc = "stopped"

\* C9: a failed delivery, of a highlight or of a status message, is not
\* counted as an error and restarts nothing, and the tick it happens in
\* completes and is counted in total_checks.
C9_DeliveryFailureContained ==
    (ev.sent = "failed" \/ ev.status = "failed") =>
        /\ ev.kind \in {"tick", "start"}
        /\ inner_errors = 0
        /\ error_count <= ev.prev.errors
        /\ restart_count = ev.prev.restarts
        /\ pc = "inner"
        /\ ev.kind = "tick" => total_checks = ev.prev.checks + 1

\* A tick whose highlight send failed, after earlier errors of the loop.
C9_Witness ==
    /\ ev.kind = "tick"
    /\ ev.sent = "failed"
    /\ ev.prev.errors > 0

\* C10: no step lowers last_alert_time.
C10_AlertTimeMonotone == last_alert_time >= ev.prev.alert

\* C11: no step lowers restart_count, and the steps that bring the supervisor
\* back to the construction of a monitor (super_robust_monitor called again,
\* the outer loop entered, a monitor constructed) leave it as it was.
C11_RestartCountKept ==
    /\ restart_count >= ev.prev.restarts
    /\ (ev.kind \in {"launch", "start"} \/ pc = "starting") =>
           restart_count = ev.prev.restarts

\* super_robust_monitor is called again after restarts have been counted.
C11_Witness ==
    /\ active
    /\ ev.kind = "launch"
    /\ ev.prev.restarts > 0
    /\ restart_count = ev.prev.restarts

\* C12: every status message is handed to the notifier whatever the detected
\* set and the cooldown are: the one that follows the construction of a
\* monitor and the one of every 50th completed tick of super_robust_monitor,
\* after which check_count is 0 (src/bot.py), and the initial and the
\* half-hourly one of start_monitor (src/app.py).
C12_StatusUnconditional ==
    /\ ev.kind = "start" => ev.status \in {"ok", "failed"}
    /\ (ev.kind = "tick" /\ ev.status = "none") => check_count > 0
    /\ (ev.kind = "tick" /\ ev.status # "none") =>
           /\ ev.status \in {"ok", "failed"}
           /\ check_count = 0
           /\ total_checks >= StatusEvery
    /\ app.job \in {"start_status", "status"} => app.sent \in {"ok", "failed"}

\* C13: while a credential is missing no tick is executed: the supervisor is
\* never inside the inner loop, no step is a tick or a started monitor, no
\* highlight is handed to the notifier and total_checks stays 0.
C13_NoTickWithoutCredentials ==
    ~credentials =>
        /\ pc \notin {"inner", "backoff"}
        /\ ev.kind \notin {"tick", "error", "start"}
        /\ ev.sent = "none"
        /\ ev.fetch = "none"
        /\ total_checks = 0
        /\ last_send_time = -1

\* A construction has failed for the missing credential and the supervisor
\* is at the construction again.
C13_Witness ==
    /\ ~credentials
    /\ pc = "starting"
    /\ restart_count > 0

\* C19: a tick that fetches markup and detects {7, 23, 41} while
\* last_detected_numbers is {7, 23} and the cooldown has elapsed hands the
\* highlight {7, 23, 41} to the notifier; and every tick that delivers a
\* highlight ends with last_detected_numbers the delivered set and
\* last_alert_time the tick's own time.
C19_NotifyingTickRecords ==
    /\ (/\ ev.kind = "tick"
        /\ ev.fetch = "ok"
        /\ ev.prev.detected = {7, 23}
        /\ ev.current = {7, 23, 41}
        /\ ev.time - ev.prev.alert >= alert_cooldown) => Sent
    /\ (ev.kind = "tick" /\ ev.sent = "ok") =>
           /\ last_detected_numbers = ev.current
           /\ last_alert_time = ev.time
           /\ notified = <<ev.current>>

\* {7, 23} was delivered by this instance, and a later tick delivers
\* {7, 23, 41}.
C19_Witness ==
    /\ ev.kind = "tick"
    /\ ev.sent = "ok"
    /\ ev.prev.notified = <<{7, 23}>>
    /\ ev.prev.detected = {7, 23}
    /\ ev.prev.alert > 0
    /\ ev.current = {7, 23, 41}
    /\ last_alert_time = ev.time

\* The response was read wholly after a construction had failed for the
\* missing credential.
ReadAfterStartFailure ==
    /\ Answered
    /\ ~credentials
    /\ \A s \in request.seen : s.restart_count > 0

\* C14: a request served while the supervisor cannot start for a missing
\* credential is answered, and the answer does not say "healthy" (health)
\* nor active (monitor_status).
C14_MissingCredentialsReported ==
    ReadAfterStartFailure =>
        /\ request.route = "health" => Response.status # "healthy"
        /\ request.route = "monitor_status" => ~Response.monitor_active

\* C15: the values of one response all held together in one state of
\* monitor_state that the handler saw while it read.
C15_ConsistentSnapshot ==
    Answered =>
        \E s \in request.seen :
            \A i \in 1..Len(request.got) : request.got[i] = s[Fields(request.route)[i]]

\* C20: a step of a handler leaves monitor_state as it was, and monitor_state
\* changes only in steps of the supervisor thread (a completed tick, a
\* counted restart).
C20_HandlersOnlyRead ==
    [][/\ request' # request => monitor_state' = monitor_state
       /\ monitor_state' # monitor_state =>
             /\ request' = request
             /\ ev' # ev
             /\ ev'.kind \in {"tick", "outer_error"}]_vars

\* monitor_status has read all its keys after ticks have completed, while
\* the dictionary holds what the supervisor wrote last.
C20_Witness ==
    /\ Answered
    /\ request.route = "monitor_status"
    /\ total_checks >= 2
    /\ Response.total_checks = total_checks
    /\ Response.last_success = last_success

\* The set the strategies of the call just made merged from the page.
Merged ==
    IF page.body # "markup" THEN {}
    ELSE IF found[1].by = "bot" THEN InRange(page.marked)
    ELSE app_candidates(page)

\* The look of the whole grid: minimum 1, maximum at least 10, 8 members or
\* more.
GridLike(S) ==
    /\ S # {}
    /\ SetMin(S) = 1
    /\ SetMax(S) >= GridMax
    /\ Cardinality(S) >= GridSize

\* C16: detect_bright_numbers returns at most 15 numbers, and the empty set
\* when the strategies merged more than 15.
C16_AtMostFifteen ==
    found # <<>> =>
        /\ Cardinality(found[1].numbers) <= MaxGroup
        /\ Cardinality(Merged) > MaxGroup => found[1].numbers = {}

\* C17: when the set the strategies merged looks like the whole grid,
\* whichever strategy it came from, detect_bright_numbers returns the empty
\* set.
C17_GridSuppressed ==
    (found # <<>> /\ GridLike(Merged)) => found[1].numbers = {}

C21_BackoffAfterEleventh ==
    (pc = "backoff" /\ active /\ error_count < max_errors) =>
        inner_errors > max_inner_errors

\* A monitor has been constructed within this run of super_robust_monitor
\* after the inner loop of an earlier one was left for its errors.
StartedAfterBackoff ==
    /\ ev.kind = "start"
    /\ ev.prev.errors >= max_inner_errors

\* C22: a pass through the backoff pauses, and when ticks resume after it a
\* fresh monitor is in place, inner_errors is 0 and the pass has been
\* counted in restart_count.
C22_BackoffCountsRestart ==
    /\ ev.kind = "backoff" => now = ev.time + InnerRestartSleep
    /\ StartedAfterBackoff =>
           /\ last_detected_numbers = {}
           /\ last_alert_time = 0
           /\ inner_errors = 0
           /\ restart_count >= 1

\* C23: when the construction of a monitor raises, restart_count grows by
\* one, a critical message is handed to the notifier (delivered or not),
\* the supervisor sleeps the longer delay and is back at the outer loop.
C23_ConstructionFailureAlerted ==
    ev.kind = "outer_error" =>
        /\ restart_count = ev.prev.restarts + 1
        /\ ev.status \in {"ok", "failed"}
        /\ now = ev.time + OuterErrorSleep
        /\ pc = "outer"

\* C24: a completed tick leaves inner_errors 0, a tick that raised leaves it
\* one higher, a constructed monitor starts it at 0 and no other step
\* changes it: it counts the ticks that raised since the last completed tick
\* or construction.
C24_InnerErrorsConsecutive ==
    /\ ev.kind = "tick" => inner_errors = 0
    /\ ev.kind = "start" => inner_errors = 0
    /\ ev.kind = "error" => inner_errors = ev.prev.inner + 1
    /\ ev.kind \notin {"tick", "start", "error"} => inner_errors = ev.prev.inner

\* A tick completes after ticks that raised.
C24_Witness ==
    /\ ev.kind = "tick"
    /\ ev.prev.inner >= 2
    /\ inner_errors = 0

\* C25: a tick that fetches markup and detects a non-empty set of at most 15
\* numbers which is not the set last delivered, once the cooldown has
\* elapsed, hands it to the notifier, also when the set was first detected
\* while the cooldown was running.
C25_DelayedNotLost ==
    (/\ ev.kind = "tick"
     /\ ev.fetch = "ok"
     /\ ev.current # {}
     /\ Cardinality(ev.current) <= MaxGroup
     /\ ev.prev.detected = ev.current
     /\ ev.prev.notified # <<ev.current>>
     /\ ev.prev.notified # <<>>
     /\ ev.time - ev.prev.alert >= alert_cooldown) => Sent

\* C26: a tick that detects nothing, or whose fetch fails, leaves
\* last_detected_numbers as it was and sends nothing; and a tick that detects
\* the set this instance delivered last, still its last_detected_numbers,
\* sends nothing, whatever the time since.
C26_ReappearanceSilent ==
    /\ (ev.kind = "tick" /\ (ev.fetch = "fail" \/ ev.current = {})) =>
           /\ last_detected_numbers = ev.prev.detected
           /\ ev.sent = "none"
    /\ (/\ ev.kind = "tick"
        /\ ev.prev.notified = <<ev.current>>
        /\ ev.prev.detected = ev.current) => ev.sent = "none"

\* S was delivered, the next fetch failed, and S is detected again after the
\* cooldown.
C26_Witness ==
    /\ ev.kind = "tick"
    /\ ev.fetch = "ok"
    /\ ev.current = {7, 23}
    /\ ev.prev.notified = <<{7, 23}>>
    /\ ev.prev.detected = {7, 23}
    /\ ev.prev.fails >= 1
    /\ ev.time - ev.prev.alert >= alert_cooldown
    /\ ev.sent = "none"

====
